---- MODULE Spec2Model ----
(***************************************************************************)
(* A model of spruce.project.scripts.doc_gen_rest: one run of main() over  *)
(* a project's module hierarchy.  The module hierarchy, the modules'       *)
(* declared included modules, the exceptions that introspection raises,    *)
(* the command line and the file system are the inputs of a run; the       *)
(* doc-spec tree, the pages and the log are computed from them as the code *)
(* computes them.                                                          *)
(*                                                                         *)
(* A module path (dotted name) is the sequence of its components:          *)
(* pkg.sub is <<"pkg", "sub">>.  A file-system path is the sequence of its *)
(* segments.  An operation that can raise returns a record                 *)
(* [exc |-> kind or "none", val |-> result].                               *)
(***************************************************************************)
EXTENDS Integers, Sequences, FiniteSets, TLC

VARIABLES
    mods,        \* the importable modules and packages under the source dir
    pkgs,        \* those of mods that are packages
    incl,        \* module -> its declared included module paths
    faults,      \* the introspection and OS calls that raise in this run
    pretend,     \* args.pretend
    out_conf,    \* 'project' of conf.py in the output dir, or "absent"
    root_conf,   \* 'project' of conf.py in the project root, or "absent"
    fs_dirs,     \* paths that exist and are directories
    fs_notdir,   \* paths that exist and are not directories
    pc,          \* position of the run
    idx,         \* position of _generate_project_rests in docspec.descendants
    skip,        \* the doc-specs whose skip flag is set
    dimd_cache,  \* the doc-specs whose _descendants_included_modules_docspecs
                 \* is set
    pages,       \* the pages written, to files or to sys.stdout, in order
    log,         \* records logged at error or critical level, in order
    raised,      \* the exception that ended the run, or "none"
    script_ismain,  \* whether doc_gen_rest runs as __main__ (python
                 \* doc_gen_rest.py) or is imported by the installed command
    vcs_in,      \* vcs: the project path, the repositories around it and the
                 \* output of the svn commands
    vcs_run,     \* vcs: the position and the results of one call of
                 \* svn_last_changed_revision
    lazy         \* the cache fields of the doc-specs of one tree, and how
                 \* often each was computed, under accesses in any order

vcsvars == <<vcs_in, vcs_run>>
envvars == <<mods, pkgs, incl, faults, pretend, out_conf, root_conf, fs_notdir,
             script_ismain, vcsvars, lazy>>
docvars == <<mods, pkgs, incl, faults, pretend, out_conf, root_conf, fs_dirs,
             fs_notdir, pc, idx, skip, dimd_cache, pages, log, raised,
             script_ismain>>
vars == <<docvars, vcsvars, lazy>>

---------------------------------------------------------------------------
(* Bounds of the model. *)

\* most modules in the hierarchy of one run
MaxModules == 3
\* most (module, included path) declarations in one run
MaxIncl == 1
\* most things that go wrong in the environment of one run: a raising call,
\* a non-directory in the way, a missing conf.py in the output dir
MaxFaults == 1
\* most components of the project path given to the vcs functions
MaxPathDepth == 2
\* most accesses of lazy properties of the doc-specs of one tree
MaxAccesses == 3

---------------------------------------------------------------------------
(* Results of operations that can raise. *)

Ok(v) == [exc |-> "none", val |-> v]
Raise(kind) == [exc |-> kind, val |-> <<>>]

---------------------------------------------------------------------------
(* Sequences. *)

Front(s) == SubSeq(s, 1, Len(s) - 1)
Last(s) == s[Len(s)]
Range(s) == {s[i] : i \in 1..Len(s)}
IsPrefix(s, t) == Len(s) <= Len(t) /\ SubSeq(t, 1, Len(s)) = s

RECURSIVE Flatten(_)
Flatten(ss) == IF ss = <<>> THEN <<>> ELSE Head(ss) \o Flatten(Tail(ss))

\* list.sort(key=...): a stable sort; key is a function from the items to
\* numbers
RECURSIVE InsertSorted(_, _, _)
InsertSorted(x, s, key) ==
    IF s = <<>> THEN <<x>>
    ELSE IF key[x] < key[Head(s)] THEN <<x>> \o s
    ELSE <<Head(s)>> \o InsertSorted(x, Tail(s), key)

RECURSIVE StableSort(_, _)
StableSort(s, key) ==
    IF s = <<>> THEN <<>>
    ELSE InsertSorted(Last(s), StableSort(Front(s), key), key)

RECURSIVE KSubsets(_, _)
\* the subsets of S with at most k elements
KSubsets(S, k) ==
    IF k = 0 THEN {{}}
    ELSE LET prev == KSubsets(S, k - 1)
         IN  prev \cup {A \cup {x} : A \in prev, x \in S}

---------------------------------------------------------------------------
(* Strings.  TLA+ strings are atoms, so the string operations of the code  *)
(* are tables over the names that occur.                                   *)

\* str.lower()
lower(s) ==
    CASE s = "Zeta" -> "zeta"
      [] s = "Err" -> "err"
      [] OTHER -> s

\* the strings in ascending order of Python's string comparison
StringOrder == <<"Err", "Zeta", "_impl", "_priv", "alpha", "beta", "err",
                 "extension", "gone", "index", "index_", "keys", "len", "mod",
                 "nisavid", "os", "pkg", "sub", "weird", "zeta">>
StringRank(s) == CHOOSE i \in 1..Len(StringOrder) : StringOrder[i] = s

\* s.startswith('_')
startswith_underscore(s) == s \in {"_impl", "_priv"}

\* s + '_'
append_underscore(s) ==
    CASE s = "index" -> "index_"
      [] OTHER -> "index__"

\* comparison of dotted names as strings: '.' sorts before every character
\* of a name, so it is the lexicographic order of the components
RECURSIVE DottedLess(_, _)
DottedLess(p, q) ==
    IF p = <<>> THEN q # <<>>
    ELSE IF q = <<>> THEN FALSE
    ELSE IF p[1] = q[1] THEN DottedLess(Tail(p), Tail(q))
    ELSE StringRank(p[1]) < StringRank(q[1])

\* the sort key of the dotted names of a set: the rank of name.lower()
LowerNameKey(P) ==
    [p \in P |->
        Cardinality({q \in P :
            DottedLess([i \in 1..Len(q) |-> lower(q[i])],
                       [i \in 1..Len(p) |-> lower(p[i])])})]

---------------------------------------------------------------------------
(* The inputs of a run. *)

\* the modules that a hierarchy is drawn from
ModuleUniverse ==
    { <<"pkg">>, <<"pkg", "sub">>, <<"pkg", "sub", "mod">>,
      <<"pkg", "index">>, <<"pkg", "index_">>, <<"pkg", "_impl">>,
      <<"nisavid">>, <<"nisavid", "pkg">>, <<"nisavid", "pkg", "sub">> }

\* a declared included path that names no module
ExtPath == <<"pkg", "gone">>

HasSubmodules(H, p) == \E q \in H : Len(q) = Len(p) + 1 /\ Front(q) = p

Hierarchies ==
    {H \in SUBSET ModuleUniverse :
        /\ Cardinality(H) <= MaxModules
        /\ \A p \in H : Len(p) > 1 => Front(p) \in H}

\* the names of directories with an __init__ module: a module of such a
\* name is a package even when it has no submodules
PackageNames == {"pkg", "sub", "nisavid"}
Packages(H) == {p \in H : HasSubmodules(H, p) \/ Last(p) \in PackageNames}

\* the order in which the introspection library enumerates modules
EnumOrder == <<"pkg", "sub", "nisavid", "mod", "index_", "index", "_impl">>
EnumRank(s) == CHOOSE i \in 1..Len(EnumOrder) : EnumOrder[i] = s

RECURSIVE SetToSeq(_, _)
\* the elements of S in ascending order of key
SetToSeq(S, key) ==
    IF S = {} THEN <<>>
    ELSE LET x == CHOOSE y \in S : \A z \in S : key[y] <= key[z]
         IN  <<x>> \o SetToSeq(S \ {x}, key)

EnumKey(P) == [p \in P |-> EnumRank(Last(p))]

InclChoices(H) ==
    {[m \in H |-> SetToSeq({d[2] : d \in {e \in D : e[1] = m}},
                           LowerNameKey(H \cup {ExtPath}))] :
        D \in KSubsets(H \X (H \cup {ExtPath}), MaxIncl)}

\* the exceptions a call of the introspection library or of os raises
FaultSites(H, I) ==
         {[site |-> "children", at |-> m, attr |-> "", kind |-> "ImportError"] :
            m \in H}
    \cup {[site |-> "inclpaths", at |-> m, attr |-> "", kind |-> k] :
            m \in H, k \in {"ImportError", "IOError", "InconsistentStructure"}}
    \cup {[site |-> "attrnames", at |-> m, attr |-> "", kind |-> k] :
            m \in H, k \in {"ImportError", "IOError"}}
    \cup {[site |-> "metatype", at |-> m, attr |-> a, kind |-> "ImportError"] :
            m \in H, a \in {"Zeta", "alpha"}}
    \cup {[site |-> "docstring", at |-> m, attr |-> "", kind |-> "ImportError"] :
            m \in {q \in H : Len(q) = 1}}
    \cup {[site |-> "intree", at |-> m, attr |-> "", kind |-> "ImportError"] :
            m \in {q \in H : \E d \in H : q \in Range(I[d])}}
    \cup {[site |-> "mkdir", at |-> <<>>, attr |-> "", kind |-> "OSError"]}

Raises(site, m, a) ==
    \E f \in faults : f.site = site /\ f.at = m /\ f.attr = a
RaisedKind(site, m, a) ==
    (CHOOSE f \in faults : f.site = site /\ f.at = m /\ f.attr = a).kind

\* args.output, normalised
OutRoot == <<"build", "doc">>
Prefixes(p) == {SubSeq(p, 1, i) : i \in 1..Len(p)}
\* args.path, normalised
ProjectRoot == <<"proj">>

\* the 'project' values of the conf.py files; <<>> is no conf.py
ProjectNames == { <<"spruce-", "pkg">> }
RootProjectName == <<"elsewhere">>

\* the 'project' of the conf.py in a directory; <<>> if it has none
ConfAt(dir) ==
    IF dir = OutRoot THEN out_conf
    ELSE IF dir = ProjectRoot THEN root_conf
    ELSE <<>>

FsDirChoices == { {}, {<<"build">>}, Prefixes(OutRoot) }

NotDirCandidates(H, dirs) ==
    {x \in Prefixes(OutRoot) \cup {OutRoot \o p : p \in H} :
        x \notin dirs /\ (Len(x) = 1 \/ Front(x) \in dirs)}

\* At most MaxFaults things are wrong: an output dir without conf.py (for
\* whatever reason), a raising call, a non-directory where a package's
\* directory goes.
EnvInit ==
    /\ script_ismain \in BOOLEAN
    /\ mods \in Hierarchies
    /\ pkgs = Packages(mods)
    /\ incl \in InclChoices(mods)
    /\ pretend \in BOOLEAN
    /\ root_conf \in {<<>>, RootProjectName}
    /\ fs_dirs \in FsDirChoices
    /\ out_conf \in (IF OutRoot \in fs_dirs THEN ProjectNames ELSE {}) \cup {<<>>}
    /\ IF OutRoot \notin fs_dirs
       THEN /\ fs_notdir \in KSubsets({x \in Prefixes(OutRoot) :
                                          x \in NotDirCandidates(mods, fs_dirs)}, 1)
            /\ faults \in KSubsets(FaultSites(mods, incl), MaxFaults - 1)
       ELSE \E n \in 0..MaxFaults :
              /\ n + (IF out_conf = <<>> THEN 1 ELSE 0) <= MaxFaults
              /\ \E k \in 0..n :
                   /\ fs_notdir \in
                        {A \in KSubsets(NotDirCandidates(mods, fs_dirs), k) :
                            Cardinality(A) = k}
                   /\ faults \in
                        {A \in KSubsets(FaultSites(mods, incl), n - k) :
                            Cardinality(A) = n - k}

---------------------------------------------------------------------------
(* The doc-spec tree.  A doc-spec is [path, outdir, up]: the module's path *)
(* (<<>> for the project), its out_parentdirpath, and its parent (a        *)
(* sequence of at most one doc-spec, empty for the project).               *)
(*                                                                         *)
(* An operation whose code uses an intermediate result several times is    *)
(* written as two definitions: the operation, which computes the           *)
(* intermediate results, and a second one (named ..._with or ..._from)     *)
(* that takes them as parameters.                                          *)

\* _ProjectDocSpec(args.path, args.output, ...)
ProjectDocSpec == [path |-> <<>>, outdir |-> OutRoot, up |-> <<>>]
\* _ModuleDocSpec(src_filepath, out_parentdirpath, parent)
ModuleDocSpec(path, outdir, parent) ==
    [path |-> path, outdir |-> outdir, up |-> <<parent>>]

isproject(n) == n.up = <<>>

\* the src_filepath of the project doc-spec is args.path
src_filepath(n) == IF isproject(n) THEN ProjectRoot ELSE n.path

\* _sphinx_settings that looks for conf.py in the project's directory
sphinx_conf_dir_project_root(n) == src_filepath(n)

\* the directory in which conf.py is looked for
sphinx_conf_dir(n) == n.outdir

sphinx_settings_from(conf) ==
    IF conf = <<>> THEN Raise("_CriticalError") ELSE Ok(conf)
_sphinx_settings(n) == sphinx_settings_from(ConfAt(sphinx_conf_dir(n)))

\* _ModuleDocSpec.name is the module's path, _ProjectDocSpec.name is
\* conf.py's 'project'
name(n) == IF isproject(n) THEN _sphinx_settings(n) ELSE Ok(n.path)

\* name[len('spruce-'):] if name.startswith('spruce-')
strip_spruce(nm) ==
    IF nm # <<>> /\ Head(nm) = "spruce-" THEN Tail(nm) ELSE nm

\* _ModuleDocSpec.shortname; _ProjectDocSpec.shortname
shortname(n) ==
    IF isproject(n) THEN strip_spruce(name(n).val) ELSE <<Last(n.path)>>

RECURSIVE root(_)
root(n) == IF n.up = <<>> THEN n ELSE root(n.up[1])

\* self._module.included_modules_paths(toabs=True)
included_modules_paths(n) ==
    IF isproject(n) THEN Ok(<<>>)
    ELSE IF Raises("inclpaths", n.path, "")
    THEN Raise(RaisedKind("inclpaths", n.path, ""))
    ELSE Ok(incl[n.path])

\* a then b, both lists: the first exception, or the concatenation
Concat(a, b) ==
    IF a.exc # "none" THEN a
    ELSE IF b.exc # "none" THEN b
    ELSE Ok(a.val \o b.val)

RECURSIVE IncludedOfChain(_)
\* the included_modules_paths of a doc-spec and of its ancestors
IncludedOfChain(up) ==
    IF up = <<>> THEN Ok(<<>>)
    ELSE Concat(included_modules_paths(up[1]), IncludedOfChain(up[1].up))

_ancestor_included_modulepaths(n) == IncludedOfChain(n.up)

\* self._module.submodules(include_packages=True)
submodules(m) ==
    SetToSeq({q \in mods : Len(q) = Len(m) + 1 /\ Front(q) = m},
             EnumKey(mods))

\* args.excluded_modules
excluded_modules_names == {"setup"}

\* _introspect.top_modules(src dir, excluded_names=...)
top_modules ==
    SetToSeq({q \in mods : Len(q) = 1 /\ q[1] \notin excluded_modules_names},
             EnumKey(mods))

\* children that tests a submodule against the module's own included
\* paths only
KeptSubmodule_own_only(path, own, anc) == path \notin Range(own)

\* children that tests a submodule against the ancestors' included paths
\* only
KeptSubmodule_ancestors_only(path, own, anc) == path \notin Range(anc)

\* the submodules that _ModuleDocSpec.children keeps
KeptSubmodule(path, own, anc) ==
    path \notin Range(own) /\ path \notin Range(anc)

project_children_from(n, tops) ==
    Ok([i \in 1..Len(tops) |-> ModuleDocSpec(tops[i], n.outdir, n)])

kept_children(n, kept, short) ==
    Ok([i \in 1..Len(kept) |-> ModuleDocSpec(kept[i], n.outdir \o short, n)])

\* the list comprehension of _ModuleDocSpec.children: own and anc are read
\* only when a submodule is tested against them
module_children_from(n, subs, own, anc, short) ==
    IF subs = <<>> THEN Ok(<<>>)
    ELSE IF own.exc # "none" THEN own
    ELSE IF \A i \in 1..Len(subs) : subs[i] \in Range(own.val) THEN Ok(<<>>)
    ELSE IF anc.exc # "none" THEN anc
    ELSE kept_children(n,
             SelectSeq(subs, LAMBDA q : KeptSubmodule(q, own.val, anc.val)),
             short)

children(n) ==
    IF isproject(n) THEN project_children_from(n, top_modules)
    ELSE IF Raises("children", n.path, "")
    THEN Raise(RaisedKind("children", n.path, ""))
    ELSE IF n.path \notin pkgs THEN Ok(<<>>)
    ELSE module_children_from(n, submodules(n.path),
                              included_modules_paths(n),
                              _ancestor_included_modulepaths(n), shortname(n))

\* descendants that appends a child after its descendants
descendants_cons_postorder(child, d, rest) ==
    IF d.exc # "none" THEN d
    ELSE IF rest.exc # "none" THEN rest
    ELSE Ok(d.val \o <<child>> \o rest.val)

\* child, then its descendants, then the rest
descendants_cons(child, d, rest) ==
    IF d.exc # "none" THEN d
    ELSE IF rest.exc # "none" THEN rest
    ELSE Ok(<<child>> \o d.val \o rest.val)

RECURSIVE descendants(_), descendants_of_each(_)
descendants_from(cs) ==
    IF cs.exc # "none" THEN cs ELSE descendants_of_each(cs.val)
descendants(n) == descendants_from(children(n))
descendants_of_each(cs) ==
    IF cs = <<>> THEN Ok(<<>>)
    ELSE descendants_cons(Head(cs), descendants(Head(cs)),
                          descendants_of_each(Tail(cs)))

\* a file path: the segments of the path without its extension, and the
\* extension
File(segs, ext) == [segs |-> segs, ext |-> ext]
dirname(f) == Front(f.segs)

\* the name of a leaf's page: '_' is appended to 'index'
LeafDocName(short) ==
    IF short = "index" THEN append_underscore(short) ELSE short

reldocpath_from(cs, short) ==
    IF cs.exc # "none" THEN cs
    ELSE IF cs.val # <<>> THEN Ok(short \o <<"index">>)
    ELSE Ok(<<LeafDocName(short[1])>>)

reldocpath(n) ==
    IF isproject(n) THEN Ok(<<"index">>)
    ELSE reldocpath_from(children(n), shortname(n))

\* os.path.relpath(path, start) for a path under start
relpath(path, start) == SubSeq(path, Len(start) + 1, Len(path))

docpath_from(rel, parentdocpath) ==
    IF rel.exc # "none" THEN rel ELSE Ok(parentdocpath \o rel.val)
docpath(n) == docpath_from(reldocpath(n), relpath(n.outdir, root(n).outdir))

out_filepath_from(dp, rootdir) ==
    IF dp.exc # "none" THEN dp ELSE Ok(File(rootdir \o dp.val, ".rst"))
out_filepath(n) == out_filepath_from(docpath(n), root(n).outdir)

---------------------------------------------------------------------------
(* Introspection of one module. *)

\* self._module.attrnames, by the module's short name
AttrTable(short) ==
    CASE short = "pkg" -> <<"Zeta", "alpha", "_priv", "extension", "len",
                            "sub", "os", "beta", "keys">>
      [] short = "sub" -> <<"beta", "Err", "mod">>
      [] short = "mod" -> <<"weird", "alpha">>
      [] short = "index" -> <<"alpha", "Zeta">>
      [] short = "index_" -> <<"Zeta">>
      [] short = "nisavid" -> <<"pkg">>
      [] OTHER -> <<"beta">>

module_attrnames(n) ==
    IF Raises("attrnames", n.path, "")
    THEN Raise(RaisedKind("attrnames", n.path, ""))
    ELSE Ok(AttrTable(Last(n.path)))

\* attr.metatype of the attribute of a name
Metatype(attrname) ==
    CASE attrname \in {"Zeta"} -> "CLASS"
      [] attrname \in {"alpha", "len", "keys"} -> "FUNCTION"
      [] attrname \in {"beta", "extension", "_priv"} -> "OLDSTYLE"
      [] attrname \in {"Err"} -> "EXCEPTION"
      [] attrname \in {"os", "sub", "mod", "pkg"} -> "MODULE"
      [] OTHER -> "UNKNOWN"

\* _introspect.module_path_isstandard(attr.name)
module_path_isstandard(attrname) == attrname = "os"

\* the names of the built-in objects
builtin_names == {"len"}
\* the names of the attributes of a dict
dict_attrnames == {"keys"}

\* dir(__builtins__): __builtins__ is the module __builtin__ in the module
\* __main__ and the dict of that module in an imported module
Builtins == IF script_ismain THEN builtin_names ELSE dict_attrnames

module_isprivate(n) == startswith_underscore(Last(n.path))
module_isstandard(n) == FALSE

\* self._module.shortdoc, by the module's short name
ShortDoc(short) ==
    CASE short = "sub" -> "Helpers."
      [] short = "mod" -> ""
      [] short = "index" -> "..."
      [] OTHER -> "Docs"

\* title.rstrip('.')
rstrip_dots(t) ==
    CASE t = "Helpers." -> "Helpers"
      [] t = "..." -> ""
      [] OTHER -> t

---------------------------------------------------------------------------
(* Rendering.  A rendering operation returns [exc, val, log, cached]: what *)
(* it raises, its result, the records it logs, and the doc-specs whose     *)
(* _descendants_included_modules_docspecs is set afterwards.               *)

Res(exc, val, lg, cached) ==
    [exc |-> exc, val |-> val, log |-> lg, cached |-> cached]

LogRec(level, what, of, item) ==
    [level |-> level, what |-> what, of |-> of, item |-> item]

\* _log_failed_included_module
FailedIncludedModule(n, path) ==
    LogRec("error", "included module", n.path, path)
\* _log_failed_included_modules
FailedIncludedModules(n) == LogRec("error", "included modules", n.path, <<>>)
\* _log_failed_module_attr
FailedModuleAttr(n, attrname) ==
    LogRec("error", "attribute", n.path, <<attrname>>)
\* _log_failed_module_attrs
FailedModuleAttrs(n) == LogRec("error", "attributes", n.path, <<>>)
\* _log_failed_module
FailedModule(n) == LogRec("error", "module", n.path, <<>>)

\* self._module.module_intree(path, fallback_outoftree=True) finds a module
ModuleInTree(path) == ~Raises("intree", path, "") /\ path \in mods

included_docspecs_of(n, found, failed) ==
    [exc |-> "none",
     val |-> [i \in 1..Len(found) |-> ModuleDocSpec(found[i], n.outdir, n)],
     log |-> [i \in 1..Len(failed) |-> FailedIncludedModule(n, failed[i])]]

included_docspecs_from(n, paths) ==
    IF paths.exc # "none"
    THEN [exc |-> paths.exc, val |-> <<>>, log |-> <<>>]
    ELSE included_docspecs_of(n, SelectSeq(paths.val, ModuleInTree),
             SelectSeq(paths.val, LAMBDA q : ~ModuleInTree(q)))

\* the generator _ModuleDocSpec.included_modules_docspecs, run to its end:
\* [exc, val, log]
included_modules_docspecs(n) ==
    included_docspecs_from(n, included_modules_paths(n))

\* try: modules.extend(child.included_modules_docspecs) / except IOError
included_of_child(c, inc) ==
    IF inc.exc = "IOError"
    THEN [exc |-> "none", val |-> <<>>, log |-> <<FailedIncludedModules(c)>>]
    ELSE inc

dimd_join(own, sub, rest) ==
    IF rest.exc # "none"
    THEN Res(rest.exc, <<>>, own.log \o sub.log \o rest.log, rest.cached)
    ELSE Res("none", own.val \o sub.val \o rest.val,
             own.log \o sub.log \o rest.log, rest.cached)

dimd_result(n, cached, cs, r) ==
    IF n \in cached THEN Res("none", r.val, <<>>, cached)
    ELSE IF cs.exc # "none" THEN Res(cs.exc, <<>>, <<>>, cached)
    ELSE IF r.exc # "none" THEN r
    ELSE Res("none", r.val, r.log, r.cached \cup {n})

RECURSIVE descendants_included_modules_docspecs(_, _), dimd_of_each(_, _),
          dimd_child(_, _, _, _), dimd_from(_, _, _)
descendants_included_modules_docspecs(n, cached) ==
    dimd_from(n, cached, children(n))
dimd_from(n, cached, cs) ==
    dimd_result(n, cached, cs,
                dimd_of_each(cs.val, IF n \in cached THEN {} ELSE cached))
\* the loop over self.children
dimd_of_each(cs, cached) ==
    IF cs = <<>> THEN Res("none", <<>>, <<>>, cached)
    ELSE dimd_child(included_of_child(Head(cs),
                                      included_modules_docspecs(Head(cs))),
                    descendants_included_modules_docspecs(Head(cs), cached),
                    Tail(cs), cached)
dimd_child(own, sub, rest, cached) ==
    IF own.exc # "none" THEN Res(own.exc, <<>>, <<>>, cached)
    ELSE IF sub.exc # "none"
    THEN Res(sub.exc, <<>>, own.log \o sub.log, sub.cached)
    ELSE dimd_join(own, sub, dimd_of_each(rest, sub.cached))

_should_doc_module_docspec(n, module_isincluded) ==
    IF ~module_isincluded /\ module_isprivate(n) THEN FALSE
    ELSE IF ~module_isincluded /\ module_isstandard(n) THEN FALSE
    ELSE TRUE

RECURSIVE DefinedInIncluded(_, _), defined_in_from(_, _, _)
\* the loop over the included modules' attribute lists: [exc, val]
DefinedInIncluded(attrname, ds) ==
    IF ds = <<>> THEN Ok(FALSE)
    ELSE defined_in_from(attrname, module_attrnames(Head(ds)), Tail(ds))
defined_in_from(attrname, an, rest) ==
    IF an.exc = "ImportError" THEN DefinedInIncluded(attrname, rest)
    ELSE IF an.exc # "none" THEN an
    ELSE IF attrname \in Range(an.val) THEN Ok(TRUE)
    ELSE DefinedInIncluded(attrname, rest)

is_submodule_name_from(attrname, cs) ==
    IF cs.exc # "none" THEN cs
    ELSE Ok(\E i \in 1..Len(cs.val) : attrname = Last(cs.val[i].path))

\* the last test of _should_doc_module_attr: [exc, val]
IsSubmoduleName(n, attrname, module_isincluded) ==
    IF module_isincluded THEN Ok(FALSE)
    ELSE is_submodule_name_from(attrname, children(n))

\* the first loop of _should_doc_module_attr
IsIncludedModuleName(n, attrname, ds) ==
    \E i \in 1..Len(ds) : ds[i].up[1] = n /\ attrname = Last(ds[i].path)

should_doc_unless_submodule(sub, lg, cached) ==
    Res(sub.exc, sub.exc = "none" /\ ~sub.val, lg, cached)

should_doc_unless_defined(def, sub, lg, cached) ==
    IF def.exc # "none" THEN Res(def.exc, FALSE, lg, cached)
    ELSE IF def.val THEN Res("none", FALSE, lg, cached)
    ELSE should_doc_unless_submodule(sub, lg, cached)

should_doc_from(n, attrname, cached, inc, dimd, sub) ==
    IF inc.exc = "IOError" THEN should_doc_unless_submodule(sub, <<>>, cached)
    ELSE IF inc.exc # "none" THEN Res(inc.exc, FALSE, <<>>, cached)
    ELSE IF dimd.exc = "IOError"
    THEN should_doc_unless_submodule(sub, inc.log \o dimd.log, dimd.cached)
    ELSE IF dimd.exc # "none"
    THEN Res(dimd.exc, FALSE, inc.log \o dimd.log, dimd.cached)
    ELSE IF IsIncludedModuleName(n, attrname, inc.val)
    THEN Res("none", FALSE, inc.log \o dimd.log, dimd.cached)
    ELSE should_doc_unless_defined(
             DefinedInIncluded(attrname, inc.val \o dimd.val), sub,
             inc.log \o dimd.log, dimd.cached)

_should_doc_module_attr(n, attrname, module_isincluded, cached) ==
    IF attrname \in Builtins THEN Res("none", FALSE, <<>>, cached)
    ELSE IF startswith_underscore(attrname)
    THEN Res("none", FALSE, <<>>, cached)
    ELSE IF attrname = "extension" THEN Res("none", FALSE, <<>>, cached)
    ELSE should_doc_from(n, attrname, cached, included_modules_docspecs(n),
                         descendants_included_modules_docspecs(n, cached),
                         IsSubmoduleName(n, attrname, module_isincluded))

\* the lines of a page, as records
\* _rest_heading_lines(text, level)
Heading(text, level) == [kind |-> "heading", text |-> text, level |-> level]
\* _rest_file_header_lines
FileHeader == [kind |-> "header"]
Automodule(path) == [kind |-> "automodule", name |-> path]
Toctree(entries) == [kind |-> "toctree", entries |-> entries]
Directive(directive, path, attrname) ==
    [kind |-> "directive", directive |-> directive,
     target |-> path \o <<attrname>>,
     members |-> directive \in {"automodule", "autoclass", "autoexception"}]
Banner(file) == [kind |-> "banner", file |-> file]
Rule == [kind |-> "rule"]

\* the directive that doc_module_attr chooses; "" when it skips the
\* attribute
DirectiveOf(n, attrname, metatype) ==
    CASE metatype = "OLDSTYLE" -> "autodata"
      [] metatype = "FUNCTION" -> "autofunction"
      [] metatype = "CLASS" -> "autoclass"
      [] metatype = "EXCEPTION" -> "autoexception"
      [] metatype = "MODULE" ->
            IF module_path_isstandard(attrname) THEN ""
            ELSE IF n.path \o <<attrname>> \in mods THEN "automodule"
            ELSE "autodata"
      [] OTHER -> "autodata"

\* an attribute's heading at the level of its module's title
doc_module_attr_as_samelevel(n, attrname, level, directive) ==
    IF directive = "" THEN [val |-> <<>>, log |-> <<>>]
    ELSE [val |-> <<Heading(<<attrname>>, level),
                    Directive(directive, n.path, attrname)>>,
          log |-> <<>>]

doc_module_attr_as(n, attrname, level, directive) ==
    IF directive = "" THEN [val |-> <<>>, log |-> <<>>]
    ELSE [val |-> <<Heading(<<attrname>>, level + 1),
                    Directive(directive, n.path, attrname)>>,
          log |-> <<>>]

\* reading attr.metatype raises
MetatypeRaises(n, attrname) == Raises("metatype", n.path, attrname)

\* doc_module_attr without the try around attr.metatype, on an attribute
\* whose metatype is known all the same
doc_module_attr_unguarded(n, attrname, level) ==
    doc_module_attr_as(n, attrname, level,
                       DirectiveOf(n, attrname, Metatype(attrname)))

\* [val, log]: the lines and the log records of one attribute
doc_module_attr(n, attrname, level) ==
    IF MetatypeRaises(n, attrname)
    THEN [val |-> <<>>, log |-> <<FailedModuleAttr(n, attrname)>>]
    ELSE doc_module_attr_as(n, attrname, level,
                            DirectiveOf(n, attrname, Metatype(attrname)))

filter_join(attrname, first, rest) ==
    IF rest.exc # "none"
    THEN Res(rest.exc, <<>>, first.log \o rest.log, rest.cached)
    ELSE Res("none",
             (IF first.val THEN <<attrname>> ELSE <<>>) \o rest.val,
             first.log \o rest.log, rest.cached)

RECURSIVE FilterAttrs(_, _, _, _), filter_from(_, _, _, _)
\* the list comprehension of doc_module_attrs
FilterAttrs(n, attrnames, module_isincluded, cached) ==
    IF attrnames = <<>> THEN Res("none", <<>>, <<>>, cached)
    ELSE filter_from(n, attrnames, module_isincluded,
                     _should_doc_module_attr(n, Head(attrnames),
                                             module_isincluded, cached))
filter_from(n, attrnames, module_isincluded, first) ==
    IF first.exc # "none" THEN first
    ELSE filter_join(Head(attrnames), first,
                     FilterAttrs(n, Tail(attrnames), module_isincluded,
                                 first.cached))

\* attrnames.sort(key=(lambda name: name.lower()))
SortAttrnames(attrnames) ==
    StableSort(attrnames, [a \in Range(attrnames) |-> StringRank(lower(a))])

doc_each_attr(kept, docs) ==
    Res("none", Flatten([i \in 1..Len(docs) |-> docs[i].val]),
        kept.log \o Flatten([i \in 1..Len(docs) |-> docs[i].log]),
        kept.cached)

doc_sorted_attrs(n, level, kept, sorted) ==
    doc_each_attr(kept,
        [i \in 1..Len(sorted) |-> doc_module_attr(n, sorted[i], level)])

doc_kept_attrs(n, level, kept) ==
    IF kept.exc # "none" THEN kept
    ELSE doc_sorted_attrs(n, level, kept, SortAttrnames(kept.val))

doc_attrs_from(n, level, module_isincluded, cached, an) ==
    IF an.exc # "none"
    THEN Res("none", <<>>, <<FailedModuleAttrs(n)>>, cached)
    ELSE doc_kept_attrs(n, level,
                        FilterAttrs(n, an.val, module_isincluded, cached))

doc_module_attrs(n, level, module_isincluded, cached) ==
    doc_attrs_from(n, level, module_isincluded, cached, module_attrnames(n))

sort_by_key(ds, key) == StableSort(ds, [d \in Range(ds) |-> key[d.path]])
\* sort(key=(lambda docspec: docspec.name.lower()))
SortByName(ds) ==
    sort_by_key(ds, LowerNameKey({ds[i].path : i \in 1..Len(ds)}))

title_or_name(n, title) == IF title = "" THEN n.path ELSE <<title>>
\* the title of doc_module_docspec: titlefunc is "name" or "shortdoc"
Title(n, titlefunc) ==
    IF titlefunc = "name" THEN n.path
    ELSE title_or_name(n, rstrip_dots(ShortDoc(Last(n.path))))

submodules_listing(level, listed) ==
    IF listed = <<>> THEN Ok(<<>>)
    ELSE Ok(<<Heading(<<"Submodules">>, level + 1),
              Toctree([i \in 1..Len(listed) |-> reldocpath(listed[i]).val])>>)

children_lines_from(level, cs) ==
    IF cs.exc # "none" THEN cs
    ELSE submodules_listing(level,
             SortByName(SelectSeq(cs.val,
                 LAMBDA c : _should_doc_module_docspec(c, FALSE))))

\* the "document children" part of doc_module_docspec: [exc, val]
ChildrenLines(n, level, module_isincluded) ==
    IF module_isincluded THEN Ok(<<>>)
    ELSE children_lines_from(level, children(n))

doc_docspec_join(lines, lg, nested) ==
    IF nested.exc # "none"
    THEN Res(nested.exc, <<>>, lg \o nested.log, nested.cached)
    ELSE Res("none", lines \o nested.val, lg \o nested.log, nested.cached)

doc_each_join(first, rest) ==
    IF rest.exc # "none"
    THEN Res(rest.exc, <<>>, first.log \o rest.log, rest.cached)
    ELSE Res("none", first.val \o rest.val, first.log \o rest.log,
             rest.cached)

\* the included modules that doc_module_docspec renders, in order
IncludedToDoc(ds) ==
    SortByName(SelectSeq(ds, LAMBDA d : _should_doc_module_docspec(d, TRUE)))

RECURSIVE doc_module_docspec(_, _, _, _, _), doc_each_included(_, _, _),
          doc_docspec_from(_, _, _, _, _, _, _), doc_each_from(_, _, _)
doc_module_docspec(n, level, titlefunc, module_isincluded, cached) ==
    IF level > Cardinality(mods)
    THEN Res("RuntimeError", <<>>, <<>>, cached)
    ELSE doc_docspec_from(n, level, cached,
             <<Heading(Title(n, titlefunc), level), Automodule(n.path)>>,
             ChildrenLines(n, level, module_isincluded),
             doc_module_attrs(n, level, module_isincluded, cached),
             included_modules_docspecs(n))
doc_docspec_from(n, level, cached, head, kids, attrs, inc) ==
    IF kids.exc # "none" THEN Res(kids.exc, <<>>, <<>>, cached)
    ELSE IF attrs.exc # "none" THEN attrs
    ELSE IF inc.exc \in {"InconsistentStructure", "IOError"}
    THEN Res("none", head \o kids.val \o attrs.val,
             attrs.log \o <<FailedIncludedModules(n)>>, attrs.cached)
    ELSE IF inc.exc # "none" THEN Res(inc.exc, <<>>, attrs.log, attrs.cached)
    ELSE doc_docspec_join(head \o kids.val \o attrs.val,
                          attrs.log \o inc.log,
                          doc_each_included(IncludedToDoc(inc.val), level + 1,
                                            attrs.cached))
\* the loop over included_modules_docspecs
doc_each_included(ds, level, cached) ==
    IF ds = <<>> THEN Res("none", <<>>, <<>>, cached)
    ELSE doc_each_from(ds, level,
             doc_module_docspec(Head(ds), level, "shortdoc", TRUE, cached))
doc_each_from(ds, level, first) ==
    IF first.exc # "none" THEN first
    ELSE doc_each_join(first, doc_each_included(Tail(ds), level, first.cached))

\* the path in the banner of a page printed in pretend mode
PretendPath(n) == File(n.path, ".rst")

module_rest_from(n, body) ==
    IF body.exc # "none" THEN body
    ELSE Res("none",
             IF pretend
             THEN <<Banner(PretendPath(n)), FileHeader>> \o body.val
                      \o <<Rule>>
             ELSE <<FileHeader>> \o body.val,
             body.log, body.cached)

\* the output list of _generate_module_rest: [exc, val, log, cached]
ModuleRestOutput(n, cached) ==
    module_rest_from(n, doc_module_docspec(n, 1, "name", FALSE, cached))

---------------------------------------------------------------------------
(* The run: main() calls _run(args). *)

\* pc when main() has ended
Ended == pc \in {"done", "critical", "crashed"}

\* the exit status of the process
ExitStatus == IF pc = "done" THEN 0 ELSE 1

\* an exception leaves _run: main() catches _CriticalError only, logs it
\* at critical level and exits with status 1; any other exception ends
\* the process with a traceback
main_except(exc, lg) ==
    /\ raised' = exc
    /\ pc' = IF exc = "_CriticalError" THEN "critical" ELSE "crashed"
    /\ log' = log \o lg \o
                (IF exc = "_CriticalError"
                 THEN <<LogRec("critical", "run", <<>>, <<>>)>> ELSE <<>>)

\* os.path.exists
exists(path, dirs) == path \in dirs \/ path \in fs_notdir

\* raise_error(message) raises _CriticalError
raise_error == "_CriticalError"
\* raise_notdir_error(filepath=...): the function's parameter is named
\* file, so the call raises TypeError
raise_notdir_error == "TypeError"

EnsureResult(exc, dirs) == [exc |-> exc, dirs |-> dirs]

\* os.mkdir and os.makedirs raise an OSError other than "Not a directory"
MkdirRaises == Raises("mkdir", <<>>, "")

\* the first part of _ensure_project_output_dirs: the project's output dir
EnsureProjectOutDir(dirs) ==
    IF ~exists(OutRoot, dirs)
    THEN IF \E x \in Prefixes(OutRoot) : x \in fs_notdir
         THEN EnsureResult(raise_notdir_error, dirs)
         ELSE IF MkdirRaises THEN EnsureResult(raise_error, dirs)
         ELSE EnsureResult("none", dirs \cup Prefixes(OutRoot))
    ELSE IF OutRoot \notin dirs THEN EnsureResult(raise_notdir_error, dirs)
    ELSE EnsureResult("none", dirs)

RECURSIVE ensure_child_output_dirs(_, _, _), ensure_each_child(_, _, _),
          ensure_child_from(_, _, _, _), ensure_rest(_, _, _)
\* ensure_child_output_dirs whose dirpath is parentdirpath, without the
\* doc-spec's shortname
ensure_child_output_dirs_unjoined(n, parentdirpath, dirs) ==
    ensure_child_from(n, parentdirpath, dirs, children(n))

ensure_child_output_dirs(n, parentdirpath, dirs) ==
    ensure_child_from(n, parentdirpath \o shortname(n), dirs, children(n))
ensure_child_from(n, dirpath, dirs, cs) ==
    IF cs.exc # "none" THEN EnsureResult(cs.exc, dirs)
    ELSE IF cs.val = <<>> THEN EnsureResult("none", dirs)
    ELSE IF ~exists(dirpath, dirs) /\ MkdirRaises
    THEN EnsureResult(raise_error, dirs)
    ELSE IF dirpath \in fs_notdir THEN EnsureResult(raise_notdir_error, dirs)
    ELSE ensure_each_child(cs.val, dirpath, dirs \cup {dirpath})
\* for child_docspec in docspec.children
ensure_each_child(cs, parentdirpath, dirs) ==
    IF cs = <<>> THEN EnsureResult("none", dirs)
    ELSE ensure_rest(Tail(cs), parentdirpath,
                     ensure_child_output_dirs(Head(cs), parentdirpath, dirs))
ensure_rest(rest, parentdirpath, first) ==
    IF first.exc # "none" THEN first
    ELSE ensure_each_child(rest, parentdirpath, first.dirs)

ensure_project_from(n, top, cs) ==
    IF top.exc # "none" THEN top
    ELSE ensure_each_child(cs.val, n.outdir, top.dirs)

\* what _ensure_project_output_dirs raises, and the directories afterwards
EnsureOutputDirs(n) ==
    ensure_project_from(n, EnsureProjectOutDir(fs_dirs), children(n))

ensure_end(r) ==
    /\ fs_dirs' = r.dirs
    /\ IF r.exc = "none"
       THEN pc' = "toplevel" /\ UNCHANGED <<log, raised>>
       ELSE main_except(r.exc, <<>>)
    /\ UNCHANGED <<envvars, idx, skip, dimd_cache, pages>>

_ensure_project_output_dirs ==
    /\ pc = "ensure"
    /\ ensure_end(EnsureOutputDirs(ProjectDocSpec))

\* a test that finds every descendant interesting
_descendant_is_interesting_always(d) == TRUE

_descendant_is_interesting(d) == d.path # <<"nisavid">>

RECURSIVE top_interesting_of_each(_)
top_interesting_of_each(cs) ==
    IF cs = <<>> THEN Ok(<<>>)
    ELSE Concat(IF _descendant_is_interesting(Head(cs)) THEN Ok(<<Head(cs)>>)
                ELSE children(Head(cs)),
                top_interesting_of_each(Tail(cs)))

top_interesting_descendants(n) == top_interesting_of_each(children(n).val)

\* descendant.docstring raises
DocstringRaises(d) == Raises("docstring", d.path, "")

\* descendant.name == self.shortname
\* or descendant.name == 'spruce.{}'.format(self.shortname)
IsProjectModule(short, d) == d.path = short \/ d.path = <<"spruce">> \o short

\* the descendants on which _ProjectDocSpec.docstring sets skip
SkippedByDocstring(short, ds) ==
    SelectSeq(ds, LAMBDA d : IsProjectModule(short, d) /\ DocstringRaises(d))

modules_entry(d, cs) ==
    IF cs.exc # "none" THEN cs
    ELSE IF cs.val # <<>> THEN Ok(<<d.path \o <<"index">> >>)
    ELSE Ok(<<d.path>>)

RECURSIVE ModulesEntries(_)
\* the entries of the project page's toctree
ModulesEntries(ds) ==
    IF ds = <<>> THEN Ok(<<>>)
    ELSE Concat(modules_entry(Head(ds), children(Head(ds))),
                ModulesEntries(Tail(ds)))

toplevel_lines(nm, entries) ==
    <<FileHeader, Heading(nm, 1)>>
    \o (IF entries = <<>> THEN <<>>
        ELSE <<Heading(<<"Modules">>, 2), Toctree(entries)>>)
    \o <<Heading(<<"Indices">>, 2)>>

TopRes(exc, val, lg, skipped) ==
    [exc |-> exc, val |-> val, log |-> lg, skipped |-> skipped]

toplevel_with(nm, failed, entries) ==
    TopRes(entries.exc,
           IF entries.exc = "none" THEN toplevel_lines(nm, entries.val)
           ELSE <<>>,
           [i \in 1..Len(failed) |-> FailedModule(failed[i])],
           Range(failed))

toplevel_from(nm, tid) ==
    IF nm.exc # "none" THEN TopRes(nm.exc, <<>>, <<>>, {})
    ELSE IF tid.exc # "none" THEN TopRes(tid.exc, <<>>, <<>>, {})
    ELSE toplevel_with(nm.val,
                       SkippedByDocstring(strip_spruce(nm.val), tid.val),
                       ModulesEntries(SortByName(tid.val)))

\* the output list of _generate_project_toplevel_rest, what it logs and
\* the doc-specs it sets skip on: [exc, val, log, skipped]
ProjectToplevelOutput(n) ==
    toplevel_from(name(n), top_interesting_descendants(n))

\* a page written: of which doc-spec, to its file or to sys.stdout, the
\* file's path, the lines, and what was logged while the lines were built
Page(n, tofile, file, lines, lg) ==
    [node |-> n, tofile |-> tofile, file |-> file, lines |-> lines,
     log |-> lg]

\* open(filepath, 'w') succeeds
CanOpen(file) == dirname(file) \in fs_dirs

\* the end of a page's function without its test of pretend: the file is
\* opened in every run
write_page_ignoring_pretend(n, output, file, after) ==
    IF output.exc # "none"
    THEN main_except(output.exc, output.log) /\ UNCHANGED <<pages, idx>>
    ELSE IF ~CanOpen(file)
    THEN main_except("IOError", output.log) /\ UNCHANGED <<pages, idx>>
    ELSE /\ pages' = Append(pages, Page(n, TRUE, file, output.val,
                                        output.log))
         /\ log' = log \o output.log
         /\ pc' = "modules"
         /\ idx' = after
         /\ UNCHANGED raised

\* print the output list to the file or to sys.stdout, or leave _run with
\* the exception raised while the list was built or the file opened
write_page(n, output, file, after) ==
    IF output.exc # "none"
    THEN main_except(output.exc, output.log) /\ UNCHANGED <<pages, idx>>
    ELSE IF ~pretend /\ ~CanOpen(file)
    THEN main_except("IOError", output.log) /\ UNCHANGED <<pages, idx>>
    ELSE /\ pages' = Append(pages, Page(n, ~pretend, file, output.val,
                                          output.log))
         /\ log' = log \o output.log
         /\ pc' = "modules"
         /\ idx' = after
         /\ UNCHANGED raised

toplevel_end(n, output) ==
    /\ skip' = output.skipped
    /\ write_page(n, output, File(n.outdir \o <<"index">>, ".rst"), 1)
    /\ UNCHANGED <<envvars, fs_dirs, dimd_cache>>

_generate_project_toplevel_rest ==
    /\ pc = "toplevel"
    /\ toplevel_end(ProjectDocSpec, ProjectToplevelOutput(ProjectDocSpec))

module_rest_end(n, output, file) ==
    /\ dimd_cache' = output.cached
    /\ write_page(n, output, file.val, idx + 1)
    /\ UNCHANGED <<envvars, fs_dirs, skip>>

module_rest_of(n) ==
    /\ n \notin skip
    /\ module_rest_end(n, ModuleRestOutput(n, dimd_cache), out_filepath(n))

module_rest_at(ds) ==
    /\ ds.exc = "none"
    /\ idx <= Len(ds.val)
    /\ module_rest_of(ds.val[idx])

\* one iteration of the loop of _generate_project_rests, on a doc-spec
\* whose skip is not set
_generate_module_rest ==
    /\ pc = "modules"
    /\ module_rest_at(descendants(ProjectDocSpec))

skip_at(ds) ==
    /\ ds.exc = "none"
    /\ idx <= Len(ds.val)
    /\ ds.val[idx] \in skip

\* one iteration of the loop, on a doc-spec whose skip is set: continue
SkipModule ==
    /\ pc = "modules"
    /\ skip_at(descendants(ProjectDocSpec))
    /\ idx' = idx + 1
    /\ UNCHANGED <<envvars, fs_dirs, pc, skip, dimd_cache, pages, log, raised>>

\* docspec.descendants raises when the loop starts
DescendantsRaise ==
    /\ pc = "modules"
    /\ descendants(ProjectDocSpec).exc # "none"
    /\ main_except(descendants(ProjectDocSpec).exc, <<>>)
    /\ UNCHANGED <<envvars, fs_dirs, idx, skip, dimd_cache, pages>>

loop_ended(ds) == ds.exc = "none" /\ idx > Len(ds.val)

\* the loop ends; _run and main() return
Return ==
    /\ pc = "modules"
    /\ loop_ended(descendants(ProjectDocSpec))
    /\ pc' = "done"
    /\ UNCHANGED <<envvars, fs_dirs, idx, skip, dimd_cache, pages, log, raised>>

---------------------------------------------------------------------------
(* The lazy properties of the doc-specs.  lazy.cache[n] holds the fields    *)
(* _children, _descendants, _included_modules_paths and _root of doc-spec   *)
(* n: <<>> is None, <<v>> is the value v.  lazy.computed[n] counts how      *)
(* often each was computed.  A property getter is a function from lazy to   *)
(* lazy; the value it returns is the field it leaves in the cache.         *)

\* no doc-spec
LazyIdle == [cache |-> <<>>, computed |-> <<>>, accesses |-> 0]

\* _DocSpec.__init__ and _ModuleDocSpec.__init__
Unresolved == [children |-> <<>>, descendants |-> <<>>, paths |-> <<>>,
               root |-> <<>>]
NeverComputed == [children |-> 0, descendants |-> 0, paths |-> 0, root |-> 0]

\* the field is set to v, which was computed
Resolved(st, n, field, v) ==
    [st EXCEPT !.cache[n][field] = <<v>>, !.computed[n][field] = @ + 1]

\* _ModuleDocSpec.included_modules_paths, _ProjectDocSpec.included_modules_paths
get_included_modules_paths(st, n) ==
    IF isproject(n) \/ st.cache[n].paths # <<>> THEN st
    ELSE Resolved(st, n, "paths", included_modules_paths(n).val)

RECURSIVE get_ancestor_included_modulepaths(_, _)
\* the loop of _ancestor_included_modulepaths over the ancestors
get_ancestor_included_modulepaths(st, up) ==
    IF up = <<>> THEN st
    ELSE get_ancestor_included_modulepaths(
             get_included_modules_paths(st, up[1]), up[1].up)

\* the properties that the list comprehension of _ModuleDocSpec.children
\* reads
children_reads(st, n, subs, own) ==
    IF subs = <<>> THEN st
    ELSE IF \A i \in 1..Len(subs) : subs[i] \in Range(own) THEN st
    ELSE get_ancestor_included_modulepaths(st, n.up)

children_reads_from(st, n, subs) ==
    IF subs = <<>> THEN st
    ELSE children_reads(get_included_modules_paths(st, n), n, subs,
                        included_modules_paths(n).val)

\* _ModuleDocSpec.children, _ProjectDocSpec.children
get_children(st, n) ==
    IF st.cache[n].children # <<>> THEN st
    ELSE IF isproject(n) \/ n.path \notin pkgs
    THEN Resolved(st, n, "children", children(n).val)
    ELSE Resolved(children_reads_from(st, n, submodules(n.path)), n,
                  "children", children(n).val)

RECURSIVE get_descendants(_, _), get_descendants_of_each(_, _),
          cached_descendants(_, _)
\* the loop of descendants over the children: child.descendants of each
get_descendants_of_each(st, cs) ==
    IF cs = <<>> THEN st
    ELSE get_descendants_of_each(get_descendants(st, Head(cs)), Tail(cs))

\* the list that the loop of descendants builds
cached_descendants(st, cs) ==
    IF cs = <<>> THEN <<>>
    ELSE <<Head(cs)>> \o st.cache[Head(cs)].descendants[1]
            \o cached_descendants(st, Tail(cs))

descendants_set(st, n, cs) ==
    Resolved(st, n, "descendants", cached_descendants(st, cs))

descendants_over(st, n) ==
    descendants_set(get_descendants_of_each(st, st.cache[n].children[1]), n,
                    st.cache[n].children[1])

\* if not self._descendants
descendants_unset(field) == field = <<>> \/ field = << <<>> >>

\* _DocSpec.descendants
get_descendants(st, n) ==
    IF ~descendants_unset(st.cache[n].descendants) THEN st
    ELSE descendants_over(get_children(st, n), n)

RECURSIVE get_root(_, _)
root_from(st, n) == Resolved(st, n, "root", st.cache[n.up[1]].root[1])
\* _DocSpec.root
get_root(st, n) ==
    IF st.cache[n].root # <<>> THEN st
    ELSE IF n.up = <<>> THEN Resolved(st, n, "root", n)
    ELSE root_from(get_root(st, n.up[1]), n)

\* the doc-specs that exist: the project's, and those in a children list
Created(n) ==
    IF isproject(n) THEN TRUE
    ELSE IF lazy.cache[n.up[1]].children = <<>> THEN FALSE
    ELSE n \in Range(lazy.cache[n.up[1]].children[1])

Accessed(st) == [st EXCEPT !.accesses = @ + 1]

\* some code reads docspec.children
access_children ==
    /\ lazy.accesses < MaxAccesses
    /\ \E n \in DOMAIN lazy.cache :
          /\ Created(n)
          /\ lazy' = Accessed(get_children(lazy, n))
    /\ UNCHANGED <<docvars, vcsvars>>

\* some code reads docspec.descendants
access_descendants ==
    /\ lazy.accesses < MaxAccesses
    /\ \E n \in DOMAIN lazy.cache :
          /\ Created(n)
          /\ lazy' = Accessed(get_descendants(lazy, n))
    /\ UNCHANGED <<docvars, vcsvars>>

\* some code reads docspec.included_modules_paths
access_included_modules_paths ==
    /\ lazy.accesses < MaxAccesses
    /\ \E n \in DOMAIN lazy.cache :
          /\ Created(n)
          /\ lazy' = Accessed(get_included_modules_paths(lazy, n))
    /\ UNCHANGED <<docvars, vcsvars>>

\* some code reads docspec.root
access_root ==
    /\ lazy.accesses < MaxAccesses
    /\ \E n \in DOMAIN lazy.cache :
          /\ Created(n)
          /\ lazy' = Accessed(get_root(lazy, n))
    /\ UNCHANGED <<docvars, vcsvars>>

\* the doc-specs of the tree of the project
DocSpecs == {ProjectDocSpec} \cup Range(descendants(ProjectDocSpec).val)

\* a project whose modules can all be introspected, before any access
LazyInit ==
    /\ mods \in Hierarchies
    /\ pkgs = Packages(mods)
    /\ incl \in InclChoices(mods)
    /\ faults = {}
    /\ pretend = FALSE /\ out_conf = <<>> /\ root_conf = <<>>
    /\ fs_dirs = {} /\ fs_notdir = {}
    /\ pc = "idle" /\ idx = 0 /\ skip = {} /\ dimd_cache = {}
    /\ pages = <<>> /\ log = <<>> /\ raised = "none"
    /\ script_ismain = TRUE
    /\ vcs_in = [pc |-> "idle"] /\ vcs_run = [pc |-> "idle"]
    /\ lazy = [cache |-> [n \in DocSpecs |-> Unresolved],
               computed |-> [n \in DocSpecs |-> NeverComputed],
               accesses |-> 0]

LazyNext ==
    \/ access_children
    \/ access_descendants
    \/ access_included_modules_paths
    \/ access_root

LazySpec == LazyInit /\ [][LazyNext]_vars

---------------------------------------------------------------------------
(* spruce.project.vcs.  A path is [slashes, segs]: an absolute, normalised  *)
(* path with one or two leading slashes (os.path.normpath keeps exactly two *)
(* leading slashes) and its components.  The output of a command is a      *)
(* sequence of characters; a word that is never taken apart (a label, a     *)
(* rule of dashes) stands as one item of the sequence.                     *)

\* SYSTEMS
SYSTEMS == <<"git", "git-svn", "svn">>
\* SUPPORTED_SYSTEMS of svn_last_changed_revision
SUPPORTED_SYSTEMS == <<"svn", "git-svn">>

\* the components of the deepest project path
PathNames == <<"a", "b", "c">>
VcsPaths ==
    {[slashes |-> k, segs |-> SubSeq(PathNames, 1, d)] :
        k \in {1, 2}, d \in 0..MaxPathDepth}

\* os.path.abspath of an absolute, normalised path
abspath(path) == path

\* os.path.split(path)[0]: the head keeps its slashes if it is all slashes
split_head(path) ==
    IF path.segs = <<>> THEN path ELSE [path EXCEPT !.segs = Front(@)]

\* testpath == '/'
IsRootPath(path) == path.slashes = 1 /\ path.segs = <<>>

\* the output of `svn info` (lines) and of `svn log --incremental --limit 1`
InfoOutputs ==
    { <<>>,
      << <<"URL", ":", " ", "x", "7">> >>,
      << <<"Revision", ":", " ", "7">>,
         <<"Last Changed Rev", ":", " ", "4", "2">> >>,
      << <<"Last Changed Rev", ":", " ", "4">>,
         <<"Last Changed Rev", ":", " ", "2">> >>,
      << <<"Last Changed Rev", ":", " ">> >> }
LogOutputs ==
    { <<>>,
      <<"-----", "\n">>,
      <<"-----", "\n", "r", "7", " ", "|", " ", "x", "\n">>,
      <<"-----", "\n", "r", "x", " ", "|">>,
      <<"-----", "\n", "r", "-", "7", " ", "|">>,
      <<"r", "7", " ", "|", " ", "x">> }

Digits == <<"0", "1", "2", "3", "4", "5", "6", "7", "8", "9">>
IsDigit(c) == c \in Range(Digits)
DigitValue(c) == (CHOOSE i \in 1..Len(Digits) : Digits[i] = c) - 1
IsSpace(c) == c \in {" ", "\n", "\t"}

RECURSIVE lstrip(_)
lstrip(s) == IF s # <<>> /\ IsSpace(Head(s)) THEN lstrip(Tail(s)) ELSE s
RECURSIVE rstrip(_)
rstrip(s) == IF s # <<>> /\ IsSpace(Last(s)) THEN rstrip(Front(s)) ELSE s
\* str.strip()
strip(s) == rstrip(lstrip(s))

\* the words of a string that has no leading whitespace
RECURSIVE words(_, _)
words(s, word) ==
    IF s = <<>> THEN (IF word = <<>> THEN <<>> ELSE <<word>>)
    ELSE IF IsSpace(Head(s))
    THEN (IF word = <<>> THEN <<>> ELSE <<word>>) \o words(Tail(s), <<>>)
    ELSE words(Tail(s), Append(word, Head(s)))
\* str.split()
split(s) == words(s, <<>>)

\* grep 'Last Changed Rev'
grep_last_changed_rev(lines) ==
    SelectSeq(lines, LAMBDA l : "Last Changed Rev" \in Range(l))

\* sed 's/[^0-9]//g', line by line; each line ends with a newline
RECURSIVE sed_digits(_)
sed_digits(lines) ==
    IF lines = <<>> THEN <<>>
    ELSE SelectSeq(Head(lines), IsDigit) \o <<"\n">>
            \o sed_digits(Tail(lines))

RECURSIVE decimal(_, _)
\* the number that digits denote, after the digits of acc
decimal(ds, acc) ==
    IF ds = <<>> THEN acc
    ELSE decimal(Tail(ds), 10 * acc + DigitValue(Head(ds)))

int_of_stripped(s, body) ==
    IF body = <<>> \/ \E i \in 1..Len(body) : ~IsDigit(body[i])
    THEN Raise("ValueError")
    ELSE Ok(IF Head(s) = "-" THEN 0 - decimal(body, 0) ELSE decimal(body, 0))

int_unsigned(s) ==
    int_of_stripped(s, IF s # <<>> /\ Head(s) \in {"-", "+"} THEN Tail(s)
                       ELSE s)

\* int(s): whitespace around, a sign, decimal digits
int(s) == int_unsigned(strip(s))

\* os.path.isdir(project_path + '/.svn')
isdir_svn(path) == path.segs \in vcs_in.svn
\* os.path.isdir(os.path.join(testpath, '.git'))
isdir_git(path) == path.segs \in vcs_in.git
\* os.path.isdir(project_git_topdir + '/.git/svn')
isdir_git_svn(path) == path.segs \in vcs_in.gitsvn

\* an error that does not say which systems are compatible
IncompatibleVcsError_bare(vcs, compatible_systems) ==
    [type |-> "IncompatibleVcsError",
     message |-> IF vcs = "None"
                 THEN [text |-> "no VCS found", vcs |-> <<>>,
                       systems |-> <<>>]
                 ELSE [text |-> "incompatible VCS", vcs |-> <<vcs>>,
                       systems |-> <<>>]]

\* IncompatibleVcsError(vcs, compatible_systems): the error is its message,
\* a text with the fields that are formatted into it
IncompatibleVcsError(vcs, compatible_systems) ==
    [type |-> "IncompatibleVcsError",
     message |-> IF vcs = "None"
                 THEN [text |-> "no VCS found; compatible systems are",
                       vcs |-> <<>>, systems |-> compatible_systems]
                 ELSE [text |-> "incompatible VCS; compatible systems are",
                       vcs |-> <<vcs>>, systems |-> compatible_systems]]

\* Error('invalid Subversion revision ...')
Error(revision_str) ==
    [type |-> "Error",
     message |-> [text |-> "invalid Subversion revision",
                  revision_str |-> revision_str]]

Outcome(exc, val, error, cmds) ==
    [exc |-> exc, val |-> val, error |-> error, cmds |-> cmds]

\* svn_cmdargs
svn_cmdargs(vcs) == IF vcs = "svn" THEN <<"svn">> ELSE <<"git", "svn">>

\* the revision string of the info pipeline
info_revision_str == strip(sed_digits(grep_last_changed_rev(vcs_in.info)))

revision_from(revision_str, revision, cmds) ==
    IF revision.exc = "ValueError"
    THEN Outcome("Error", 0, <<Error(revision_str)>>, cmds)
    ELSE Outcome("none", revision.val, <<>>, cmds)

revision_of(revision_str, cmds) ==
    revision_from(revision_str, int(revision_str), cmds)

\* the fallback: proc_output.split()[1][1:]
log_revision_from(tokens, cmds) ==
    IF Len(tokens) < 2 THEN Outcome("IndexError", 0, <<>>, cmds)
    ELSE revision_of(Tail(tokens[2]), cmds)

run_svn_from(vcs, revision_str) ==
    IF revision_str = <<>>
    THEN log_revision_from(split(vcs_in.logout),
                           <<svn_cmdargs(vcs) \o <<"info">>,
                             svn_cmdargs(vcs) \o <<"log">> >>)
    ELSE revision_of(revision_str, <<svn_cmdargs(vcs) \o <<"info">> >>)

\* what svn_last_changed_revision does after guess_vcs has returned vcs
svn_last_changed_revision_of(vcs) ==
    IF vcs \notin Range(SUPPORTED_SYSTEMS)
    THEN Outcome("IncompatibleVcsError", 0,
                 <<IncompatibleVcsError(vcs, SUPPORTED_SYSTEMS)>>, <<>>)
    ELSE run_svn_from(vcs, info_revision_str)

\* no call of the vcs functions
VcsIdle == [pc |-> "idle"]

VcsRun(at, testpath, iters, guess, outcome) ==
    [pc |-> at, testpath |-> testpath, iters |-> iters, guess |-> guess,
     outcome |-> outcome]

NoOutcome == Outcome("none", 0, <<>>, <<>>)

\* svn_last_changed_revision calls guess_vcs, which tests for .svn and
\* calls git_topdir
guess_vcs ==
    /\ vcs_run.pc = "call"
    /\ vcs_run' = IF isdir_svn(vcs_in.path)
                  THEN VcsRun("guessed", vcs_in.path, 0, "svn", NoOutcome)
                  ELSE VcsRun("git_topdir", abspath(vcs_in.path), 0, "None",
                              NoOutcome)
    /\ UNCHANGED <<docvars, vcs_in, lazy>>

\* git_topdir finds .git in testpath and returns to guess_vcs, which
\* returns
git_topdir_found ==
    /\ vcs_run.pc = "git_topdir"
    /\ isdir_git(vcs_run.testpath)
    /\ vcs_run' = [vcs_run EXCEPT
                     !.pc = "guessed",
                     !.guess = IF isdir_git_svn(vcs_run.testpath)
                               THEN "git-svn" ELSE "git"]
    /\ UNCHANGED <<docvars, vcs_in, lazy>>

\* git_topdir reaches '/' and returns None
git_topdir_root ==
    /\ vcs_run.pc = "git_topdir"
    /\ ~isdir_git(vcs_run.testpath)
    /\ IsRootPath(vcs_run.testpath)
    /\ vcs_run' = [vcs_run EXCEPT !.pc = "guessed", !.guess = "None"]
    /\ UNCHANGED <<docvars, vcs_in, lazy>>

\* the iterations of git_topdir after which the model stops counting
MaxIters == MaxPathDepth + 3

\* git_topdir goes on with the head of testpath
git_topdir_up ==
    /\ vcs_run.pc = "git_topdir"
    /\ ~isdir_git(vcs_run.testpath)
    /\ ~IsRootPath(vcs_run.testpath)
    /\ vcs_run.iters < MaxIters
    /\ vcs_run' = [vcs_run EXCEPT !.testpath = split_head(@),
                                  !.iters = @ + 1]
    /\ UNCHANGED <<docvars, vcs_in, lazy>>

\* the rest of svn_last_changed_revision
svn_last_changed_revision ==
    /\ vcs_run.pc = "guessed"
    /\ vcs_run' = [vcs_run EXCEPT
                     !.pc = "returned",
                     !.outcome = svn_last_changed_revision_of(vcs_run.guess)]
    /\ UNCHANGED <<docvars, vcs_in, lazy>>

\* the directories of a path: the path's and its ancestors' components
DirsOf(path) == {SubSeq(path.segs, 1, d) : d \in 0..Len(path.segs)}

VcsInputs ==
    {[path |-> p, svn |-> s, git |-> g, gitsvn |-> gs, info |-> i,
      logout |-> l] :
        p \in VcsPaths, s \in SUBSET {SubSeq(PathNames, 1, d) : d \in 0..MaxPathDepth},
        g \in SUBSET {SubSeq(PathNames, 1, d) : d \in 0..MaxPathDepth},
        gs \in SUBSET {SubSeq(PathNames, 1, d) : d \in 0..MaxPathDepth},
        i \in InfoOutputs, l \in LogOutputs}

\* no run of doc_gen_rest
DocIdle ==
    /\ mods = {} /\ pkgs = {} /\ incl = <<>> /\ faults = {}
    /\ pretend = FALSE /\ out_conf = <<>> /\ root_conf = <<>>
    /\ fs_dirs = {} /\ fs_notdir = {}
    /\ pc = "idle" /\ idx = 0 /\ skip = {} /\ dimd_cache = {}
    /\ pages = <<>> /\ log = <<>> /\ raised = "none"
    /\ script_ismain = TRUE

\* a call of svn_last_changed_revision(project_path)
VcsInit ==
    /\ DocIdle
    /\ vcs_in \in {v \in VcsInputs :
                      /\ v.svn \subseteq DirsOf(v.path)
                      /\ v.git \subseteq DirsOf(v.path)
                      /\ v.gitsvn \subseteq v.git}
    /\ vcs_run = VcsRun("call", vcs_in.path, 0, "None", NoOutcome)
    /\ lazy = LazyIdle

VcsNext ==
    \/ guess_vcs
    \/ git_topdir_found
    \/ git_topdir_root
    \/ git_topdir_up
    \/ svn_last_changed_revision

VcsSpec == VcsInit /\ [][VcsNext]_vars

---------------------------------------------------------------------------

\* _run has built the project doc-spec; nothing is resolved, written or
\* logged yet
Init ==
    /\ EnvInit
    /\ pc = IF pretend THEN "toplevel" ELSE "ensure"
    /\ idx = 0
    /\ skip = {}
    /\ dimd_cache = {}
    /\ pages = <<>>
    /\ log = <<>>
    /\ raised = "none"
    /\ vcs_in = VcsIdle
    /\ vcs_run = VcsIdle
    /\ lazy = LazyIdle

Next ==
    \/ _ensure_project_output_dirs
    \/ _generate_project_toplevel_rest
    \/ _generate_module_rest
    \/ SkipModule
    \/ DescendantsRaise
    \/ Return

Spec == Init /\ [][Next]_vars

---------------------------------------------------------------------------
(* Properties of the doc-spec tree and of a run. *)

\* the module doc-specs reachable from the project through children
Tree == Range(descendants(ProjectDocSpec).val)

\* the doc-specs that included_modules_docspecs creates under the tree
IncludedNodes == UNION {Range(included_modules_docspecs(N).val) : N \in Tree}

IsProperPrefix(s, t) == IsPrefix(s, t) /\ s # t

\* the doc-specs of the pages, in the order in which the pages were written
PageNodes == [i \in 1..Len(pages) |-> pages[i].node]

\* the pages of the module doc-specs
ModulePages == {pages[i] : i \in 2..Len(pages)}

\* C1: for every module doc-spec N and every path P in the included paths
\* of N or of an ancestor of N, no child of N has the name P.
C1_IncludedNeverChild ==
    \A N \in Tree \cup IncludedNodes :
        \A c \in Range(children(N).val) :
            /\ c.path \notin Range(included_modules_paths(N).val)
            /\ c.path \notin Range(_ancestor_included_modulepaths(N).val)

\* a run has ended normally over a tree in which an ancestor of a package
\* declares one of the package's submodules as included
C1_Witness ==
    /\ pc = "done"
    /\ \E N \in Tree :
          \E P \in Range(submodules(N.path)) :
              P \in Range(_ancestor_included_modulepaths(N).val)
              /\ P \notin Range(included_modules_paths(N).val)

\* line k of a page is the directive of module P, rendered inline: below
\* the page's own title
InlineAt(page, P, k) ==
    /\ page.lines[k] = Automodule(P)
    /\ page.lines[k - 1].kind = "heading"
    /\ page.lines[k - 1].level >= 2

HasInline(page, P) == \E k \in 2..Len(page.lines) : InlineAt(page, P, k)

\* the included modules that resolve for the doc-spec of a page
ResolvedIncluded(page) ==
    {d.path : d \in Range(included_modules_docspecs(page.node).val)}

\* C2 as stated: whenever a module D declares another module P as
\* included, wherever D is in the tree, no page is written for P, and P is
\* inline in D's page.
C2_NoPageForIncludedAnywhere ==
    \A D \in mods : \A P \in Range(incl[D]) :
        /\ D # P => \A page \in ModulePages : page.node.path # P
        /\ \A page \in ModulePages :
              page.node.path = D /\ P \in ResolvedIncluded(page)
                  => HasInline(page, P)

\* C2, amended: when the module D that declares P as included is the
\* package that contains P or an ancestor of that package, no page is
\* written for P; and whenever a page is written for a declaring module D
\* and P resolves to a module, P is inline in D's page.
C2_NoPageForIncludedBelow ==
    \A D \in mods : \A P \in Range(incl[D]) :
        /\ IsProperPrefix(D, P) => \A page \in ModulePages : page.node.path # P
        /\ \A page \in ModulePages :
              page.node.path = D /\ P \in ResolvedIncluded(page)
                  => HasInline(page, P)

\* a run has ended normally, a package declares one of its submodules as
\* included, and the package's page has the submodule inline
C2_Witness ==
    /\ pc = "done"
    /\ \E D \in mods : \E P \in Range(incl[D]) :
          /\ P \in mods /\ IsProperPrefix(D, P)
          /\ \E page \in ModulePages : page.node.path = D /\ HasInline(page, P)

\* C3: no two pages of a run are written to the same file: the
\* out_filepath of distinct doc-specs differ, and none is the project
\* index's path.
C3_OutFilepathCollisionFree ==
    \A i, j \in 1..Len(pages) :
        i # j /\ pages[i].tofile /\ pages[j].tofile
            => pages[i].file # pages[j].file

\* the path that C4 states for a module doc-spec
StatedOutFilepath(n) ==
    IF n.path \in pkgs THEN File(OutRoot \o n.path \o <<"index">>, ".rst")
    ELSE IF Last(n.path) = "index"
    THEN File(OutRoot \o Front(n.path) \o <<"index_">>, ".rst")
    ELSE File(OutRoot \o n.path, ".rst")

\* C4: the project's page is <output>/index.rst, a package's page is
\* <output>/<its path as directories>/index.rst whatever children it has,
\* and a leaf module's page is <output>/<parent directories>/<shortname>.rst
\* with '_' appended exactly to the shortname 'index'.
C4_OutputPathMapping ==
    /\ pages # <<>> => pages[1].file = File(OutRoot \o <<"index">>, ".rst")
    /\ \A page \in ModulePages : page.file = StatedOutFilepath(page.node)

\* child order: the order in which the introspection library enumerates
\* the modules of one package
EnumeratedBefore(a, b) == EnumRank(a) < EnumRank(b)

RECURSIVE PreOrderBefore(_, _)
\* p comes before q in depth-first pre-order of the module hierarchy
PreOrderBefore(p, q) ==
    IF p = <<>> THEN q # <<>>
    ELSE IF q = <<>> THEN FALSE
    ELSE IF p[1] = q[1] THEN PreOrderBefore(Tail(p), Tail(q))
    ELSE EnumeratedBefore(p[1], q[1])

\* C5: the pages of a run are the project's page and then the pages of
\* the descendants whose skip is not set, in depth-first pre-order, one
\* page each; when the run ends normally none of them is missing.
C5_PagesInPreOrder ==
    /\ pages # <<>> => pages[1].node = ProjectDocSpec
    /\ \A i \in 2..Len(pages) :
          pages[i].node \in Tree /\ pages[i].node \notin skip
    /\ \A i, j \in 2..Len(pages) :
          i < j => PreOrderBefore(pages[i].node.path, pages[j].node.path)
    /\ pc = "done" =>
          {ProjectDocSpec} \cup (Tree \ skip) = Range(PageNodes)

\* a run has ended normally with three pages or more and with a doc-spec
\* whose skip is set
C5_Witness ==
    /\ pc = "done"
    /\ Len(pages) >= 3
    /\ skip # {}

\* the calls whose failure is a failure of one unit of a module: its
\* children, docstring, attribute list, an attribute's metadata, its
\* included modules
UnitSites == {"children", "docstring", "attrnames", "metatype", "inclpaths",
              "intree"}

\* C6: no failure raised while resolving a module's children, docstring,
\* attribute list, per-attribute metadata or included modules leaves the
\* render pass: none ends the run.
C6_UnitFailuresCaught ==
    \A f \in faults : f.site \in UnitSites => raised # f.kind

\* the attributes of a page's module that _should_doc_module_attr accepts
AcceptedAttrs(n) ==
    Range(FilterAttrs(n, module_attrnames(n).val, FALSE, {}).val)

\* the attribute of a page's own module that a line documents
IsAttrDirective(page, l) ==
    l.kind = "directive" /\ Front(l.target) = page.node.path
IsAttrHeading(l, a) ==
    l.kind = "heading" /\ l.text = <<a>> /\ l.level = 2

\* the lines of a page that are directives of attributes of its module
AttrDirectives(page) ==
    SelectSeq(page.lines, LAMBDA l : IsAttrDirective(page, l))

\* how many times a record is in a log
Count(lg, rec) == Cardinality({i \in 1..Len(lg) : lg[i] = rec})

\* an accepted attribute whose metatype raises has no line in the page,
\* and one error in the page's log
FailedAttrOmitted(page, a) ==
    /\ \A k \in 1..Len(page.lines) :
          /\ ~IsAttrHeading(page.lines[k], a)
          /\ ~(IsAttrDirective(page, page.lines[k])
               /\ Last(page.lines[k].target) = a)
    /\ Count(page.log, FailedModuleAttr(page.node, a)) = 1

\* an accepted attribute has its heading and, next, its directive
AttrDocumented(page, a) ==
    \E k \in 1..(Len(page.lines) - 1) :
        /\ page.lines[k] = Heading(<<a>>, 2)
        /\ page.lines[k + 1] =
              Directive(DirectiveOf(page.node, a, Metatype(a)),
                        page.node.path, a)

\* the directives are in the order of the lower-cased attribute names
InLowerCaseOrder(ds) ==
    \A i, j \in 1..Len(ds) :
        i < j => StringRank(lower(Last(ds[i].target)))
                    <= StringRank(lower(Last(ds[j].target)))

RequiredDirs ==
    {OutRoot}
    \cup {n.outdir \o shortname(n) : n \in {d \in Tree : children(d).val # <<>>}}

\* C8: in a non-pretend run in which the output root or a required package
\* directory exists and is not a directory, _ensure_project_output_dirs
\* raises _CriticalError before a page is written, and main logs it at
\* critical level and exits with status 1.
C8_NotDirIsCritical ==
    ~pretend /\ fs_notdir \cap RequiredDirs # {} /\ pc # "ensure"
        => /\ raised = "_CriticalError"
           /\ pc = "critical"
           /\ pages = <<>>
           /\ log # <<>> /\ Last(log).level = "critical"
           /\ ExitStatus = 1

\* nothing else than the configuration can end the run
NothingElseWrong == faults = {} /\ fs_notdir = {}

\* the heading of the project's page is the project's name
ProjectHeadingIs(nm) == pages[1].lines[2] = Heading(nm, 1)

\* C9 as stated: conf.py is looked up in the project root: without it the
\* run ends with the fatal error and status 1, with it the project's name
\* is its 'project'.
C9_ConfInProjectRoot ==
    /\ root_conf = <<>> /\ Ended /\ NothingElseWrong
          => pc = "critical" /\ raised = "_CriticalError" /\ ExitStatus = 1
    /\ root_conf # <<>> /\ pages # <<>> => ProjectHeadingIs(root_conf)

\* C9, amended: conf.py is looked up in the output directory (args.output):
\* without it no page is written and the run ends with the fatal error and
\* status 1 when the project's name is first read, with it the project's
\* name is its 'project', whatever the project root contains.
C9_ConfInOutputDir ==
    /\ out_conf = <<>> => pages = <<>> /\ pc # "done"
    /\ out_conf = <<>> /\ Ended /\ NothingElseWrong
          => pc = "critical" /\ raised = "_CriticalError" /\ ExitStatus = 1
    /\ out_conf # <<>> /\ pages # <<>> => ProjectHeadingIs(out_conf)

\* a run has ended with the fatal error although the project root has a
\* conf.py: the output directory has none
C9_Witness ==
    /\ pc = "critical"
    /\ out_conf = <<>>
    /\ root_conf # <<>>
    /\ NothingElseWrong

\* a module page printed in pretend mode: between a banner with the
\* module's path and a rule
Framed(page) ==
    /\ Head(page.lines) = Banner(File(page.node.path, ".rst"))
    /\ Last(page.lines) = Rule
    /\ \A k \in 2..(Len(page.lines) - 1) :
          page.lines[k].kind \notin {"banner", "rule"}

PretendState ==
    /\ pc # "ensure"
    /\ \A i \in 1..Len(pages) : ~pages[i].tofile
    /\ \A page \in ModulePages : Framed(page)
    /\ pc = "done" => {ProjectDocSpec} \cup (Tree \ skip) = Range(PageNodes)

\* C10: in a pretend run _ensure_project_output_dirs is never called, no
\* step changes the directories, no page is written to a file, every
\* module page is printed between a banner with its path and a rule, and
\* a run that ends normally has printed the project's page and the page of
\* every descendant whose skip is not set.
C10_PretendLeavesFilesystem ==
    /\ [](pretend => PretendState)
    /\ [][pretend => fs_dirs' = fs_dirs]_vars

\* a pretend run has ended normally after printing three pages or more
C10_Witness ==
    /\ pretend
    /\ pc = "done"
    /\ Len(pages) >= 3
    /\ \A page \in ModulePages : Framed(page)

\* the entries of the listings (toctrees) of a page
ToctreeEntries(page) ==
    UNION {Range(l.entries) :
             l \in {x \in Range(page.lines) : x.kind = "toctree"}}

\* the file that an entry of a page's listing names: entries are relative
\* to the page's directory
ListedFile(page, entry) == File(dirname(page.file) \o entry, ".rst")

\* C11: after a run that ends without a fatal error, every entry of the
\* project page's Modules listing and of every page's Submodules listing
\* names the file of a page of the same run.
C11_ListingsNameEmittedPages ==
    pc = "done" =>
        \A i \in 1..Len(pages) : \A e \in ToctreeEntries(pages[i]) :
            \E j \in 1..Len(pages) : pages[j].file = ListedFile(pages[i], e)

\* C12: no page is written for a module that introspection reports as
\* private, and no directory is created for one.
C12_NoPageForPrivateModule ==
    /\ \A page \in ModulePages : ~module_isprivate(page.node)
    /\ \A n \in Tree :
          module_isprivate(n) => n.outdir \o shortname(n) \notin fs_dirs

\* the nearest directory among path and its ancestors that contains .git,
\* as the components above which nothing nearer has one; <<"none">> if none
StatedTopdir(v) ==
    IF \E d \in 0..Len(v.path.segs) : SubSeq(v.path.segs, 1, d) \in v.git
    THEN <<SubSeq(v.path.segs, 1,
                  CHOOSE d \in 0..Len(v.path.segs) :
                      /\ SubSeq(v.path.segs, 1, d) \in v.git
                      /\ \A e \in (d + 1)..Len(v.path.segs) :
                            SubSeq(v.path.segs, 1, e) \notin v.git)>>
    ELSE <<>>

StatedGuess(v) ==
    IF v.path.segs \in v.svn THEN "svn"
    ELSE IF StatedTopdir(v) = <<>> THEN "None"
    ELSE IF StatedTopdir(v)[1] \in v.gitsvn THEN "git-svn"
    ELSE "git"

VcsCalled == vcs_run.pc # "idle"
VcsGuessed == vcs_run.pc \in {"guessed", "returned"}

\* C13: guess_vcs terminates for every path (the search for .git goes up
\* at most once per component of the path) and its result is 'svn' if the
\* path has .svn, else 'git-svn' or 'git' by the nearest ancestor with
\* .git, else None; the result is None or a member of SYSTEMS.
C13_GuessVcsTerminatesAndGuesses ==
    VcsCalled =>
        /\ vcs_run.iters <= Len(vcs_in.path.segs)
        /\ VcsGuessed =>
              /\ vcs_run.guess = StatedGuess(vcs_in)
              /\ vcs_run.guess \in Range(SYSTEMS) \cup {"None"}

\* C14: when guess_vcs returns 'git' or None, svn_last_changed_revision
\* raises IncompatibleVcsError without having started a command, and the
\* error names the detected system (or that none was found) and the
\* compatible systems svn and git-svn.
C14_IncompatibleBeforeAnyCommand ==
    (VcsCalled /\ vcs_run.pc = "returned" /\ vcs_run.guess \in {"git", "None"})
        => /\ vcs_run.outcome.exc = "IncompatibleVcsError"
           /\ vcs_run.outcome.cmds = <<>>
           /\ Len(vcs_run.outcome.error) = 1
           /\ vcs_run.outcome.error[1].type = "IncompatibleVcsError"
           /\ vcs_run.outcome.error[1].message.systems = <<"svn", "git-svn">>
           /\ \/ vcs_run.outcome.error[1].message.vcs = <<vcs_run.guess>>
              \/ /\ vcs_run.guess = "None"
                 /\ vcs_run.outcome.error[1].message.text
                        = "no VCS found; compatible systems are"

C14_Witness ==
    /\ VcsCalled
    /\ vcs_run.pc = "returned"
    /\ vcs_run.guess = "git"
    /\ vcs_in.path.segs \notin vcs_in.git
    /\ vcs_run.outcome.exc = "IncompatibleVcsError"

\* C15: when the detected system is svn or git-svn,
\* svn_last_changed_revision either returns an integer or fails with
\* vcs.Error, whatever the info and log commands print.
C15_IntegerOrError ==
    (VcsCalled /\ vcs_run.pc = "returned"
        /\ vcs_run.guess \in {"svn", "git-svn"})
        => \/ vcs_run.outcome.exc = "none" /\ vcs_run.outcome.val \in Int
           \/ vcs_run.outcome.exc = "Error"

\* C16: an included module that cannot be resolved is resolved, and its
\* failure logged, once in a run: no "included module" error about a
\* module other than the including one occurs twice in the log of the run.
C16_IncludedResolvedOnce ==
    \A i \in 1..Len(log) :
        (log[i].what = "included module" /\ log[i].item # log[i].of)
            => Count(log, log[i]) <= 1

LazyFields == {"children", "descendants", "paths", "root"}

\* C17: each of children, descendants, included_modules_paths and root of
\* the doc-spec of a module is computed at most once, whatever the
\* accesses, leaves included.
C17_LazyComputedOnce ==
    \A n \in DOMAIN lazy.cache : \A f \in LazyFields :
        ~isproject(n) => lazy.computed[n][f] <= 1

\* the pages of the project index
ProjectPages == {pages[i] : i \in {j \in 1..Len(pages) : isproject(pages[j].node)}}

\* the entry of the Modules listing for a doc-spec
StatedModulesEntry(d) ==
    IF children(d).val # <<>> THEN d.path \o <<"index">> ELSE d.path

\* the top-level children of the project
TopChildren == Range(children(ProjectDocSpec).val)

\* what the Modules listing is to name: the top-level children other than
\* nisavid, and the direct children of nisavid
StatedTopInteresting ==
    {c \in TopChildren : name(c).val # <<"nisavid">>}
    \cup UNION {Range(children(c).val) :
                  c \in {t \in TopChildren : name(t).val = <<"nisavid">>}}

\* C18: the Modules listing of the project index names the top-level
\* children other than nisavid and the direct children of nisavid, and
\* nothing else: neither nisavid nor a module deeper below it.
C18_ModulesListingSkipsNamespace ==
    \A page \in ProjectPages :
        /\ ToctreeEntries(page)
              = {StatedModulesEntry(d) : d \in StatedTopInteresting}
        /\ \A e \in ToctreeEntries(page) :
              /\ e \notin {<<"nisavid">>, <<"nisavid", "index">>}
              /\ e[1] = "nisavid" => Len(e) <= 3 /\ (Len(e) = 3 => e[3] = "index")

C18_Witness ==
    /\ <<"nisavid", "pkg", "sub">> \in mods
    /\ \E page \in ProjectPages :
          <<"nisavid", "pkg", "index">> \in ToctreeEntries(page)

\* the lines of a page that are the automodule lines of rendered modules
AutomoduleLines(page) ==
    {k \in 1..Len(page.lines) : page.lines[k].kind = "automodule"}

\* the level of the title of the module whose automodule line is line k
TitleLevel(page, k) == page.lines[k - 1].level

\* the automodule line of the module in whose rendering line k is
OwnerLine(page, k) ==
    CHOOSE i \in AutomoduleLines(page) :
        i < k /\ \A j \in AutomoduleLines(page) : j < k => j <= i

IsFirstAutomodule(page, k) == \A j \in AutomoduleLines(page) : k <= j

\* the title of every rendered module is a heading; the page's own module
\* comes first, at level 1; every other module is one level below a module
\* that includes it and was rendered before it
TitleLevels(page) ==
    \A k \in AutomoduleLines(page) :
        /\ k >= 2
        /\ page.lines[k - 1].kind = "heading"
        /\ IF IsFirstAutomodule(page, k)
           THEN /\ page.lines[k].name = page.node.path
                /\ TitleLevel(page, k) = 1
           ELSE \E i \in AutomoduleLines(page) :
                   /\ i < k
                   /\ page.lines[i].name \in DOMAIN incl
                   /\ page.lines[k].name \in Range(incl[page.lines[i].name])
                   /\ TitleLevel(page, k) = TitleLevel(page, i) + 1

\* the Submodules header and the attribute headers of a module are one
\* level below the module's title
InnerLevels(page) ==
    \A k \in 2..Len(page.lines) :
        /\ page.lines[k].kind = "toctree" =>
              page.lines[k - 1]
                 = Heading(<<"Submodules">>,
                           TitleLevel(page, OwnerLine(page, k)) + 1)
        /\ page.lines[k].kind = "directive" =>
              /\ page.lines[OwnerLine(page, k)].name
                    = Front(page.lines[k].target)
              /\ page.lines[k - 1]
                    = Heading(<<Last(page.lines[k].target)>>,
                              TitleLevel(page, OwnerLine(page, k)) + 1)

IncludedOf(n) == Range(included_modules_docspecs(n).val)

\* the included modules of a doc-spec and of its descendants
IncludedAtOrBelow(n) ==
    UNION {IncludedOf(m) : m \in {n} \cup Range(descendants(n).val)}

\* an included module documents an attribute name: its attribute list can
\* be read and has the name
Documents(d, attrname) ==
    /\ module_attrnames(d).exc = "none"
    /\ attrname \in Range(module_attrnames(d).val)

\* the conditions under which an attribute name is to be rejected
StatedReject(n, attrname, module_isincluded) ==
    \/ attrname \in builtin_names
    \/ startswith_underscore(attrname)
    \/ attrname = "extension"
    \/ \E d \in IncludedOf(n) : attrname = Last(d.path)
    \/ \E d \in IncludedAtOrBelow(n) : Documents(d, attrname)
    \/ /\ ~module_isincluded
       /\ \E c \in Range(children(n).val) : attrname = Last(c.path)

\* _should_doc_module_attr decides as stated on every attribute of a module
DecidesAsStated(n, module_isincluded) ==
    \A attrname \in Range(module_attrnames(n).val) :
        _should_doc_module_attr(n, attrname, module_isincluded, {})
           = Res("none", ~StatedReject(n, attrname, module_isincluded),
                 _should_doc_module_attr(n, attrname, module_isincluded,
                                         {}).log,
                 _should_doc_module_attr(n, attrname, module_isincluded,
                                         {}).cached)

\* C20: in a run in which no call raises, for the module of every page
\* written, and for the modules rendered in it as included,
\* _should_doc_module_attr rejects an attribute name
\* exactly when it is a built-in name, starts with '_', is 'extension', is
\* the short name of an included module, is documented by an included
\* module of the module or of a descendant, or (unless the module is
\* rendered as included) is the short name of a direct child.
C20_ShouldDocModuleAttr ==
    faults = {} =>
        \A page \in ModulePages :
            /\ DecidesAsStated(page.node, FALSE)
            /\ \A d \in IncludedOf(page.node) : DecidesAsStated(d, TRUE)

\* C21: generating a module page ends for every assignment of included
\* lists: in a run in which no introspection call raises, the inline
\* rendering of included modules never nests deeper than there are modules,
\* so the run does not end because the recursion ran out of stack.
C21_InlineRenderingTerminates == faults = {} => raised # "RuntimeError"

\* _ensure_project_output_dirs has returned and the run is writing pages
EnsuredAndWriting == ~pretend /\ pc \in {"toplevel", "modules"}

\* the files of the pages of the run: the project index and the page of
\* every descendant
PageFiles ==
    {File(OutRoot \o <<"index">>, ".rst")}
    \cup {out_filepath(d).val : d \in Tree}

\* C22: in a run that is not pretended, once _ensure_project_output_dirs
\* has returned normally, the directory of the file of the project index
\* and of every descendant's page exists, so it exists when the file is
\* opened.
C22_PageDirsExistBeforeOpen ==
    EnsuredAndWriting =>
        /\ \A d \in Tree : out_filepath(d).exc = "none"
        /\ \A f \in PageFiles : dirname(f) \in fs_dirs
        /\ \A i \in 1..Len(pages) : dirname(pages[i].file) \in fs_dirs

C22_Witness ==
    /\ ~pretend
    /\ pc = "modules"
    /\ <<"pkg", "sub", "mod">> \in mods
    /\ \E i \in 1..Len(pages) :
          /\ pages[i].tofile
          /\ pages[i].file = File(OutRoot \o <<"pkg", "sub", "mod">>, ".rst")

====
